---- MODULE Spec2Model ----
(***************************************************************************)
(* Model of the wind-forecast pipeline of pmalafosse/wind-forecast:        *)
(* ForecastClient._process_forecasts (merge of the hourly and 15-minute    *)
(* series, wave join, daytime filter, dropna, classification) and the      *)
(* star rating of ReportRenderer.                                          *)
(*                                                                         *)
(* Units.  Wind, gust and band thresholds are tenths of a knot (12.0 kn is *)
(* 120), precipitation and the rain limit are tenths of a mm/h, wave       *)
(* height is tenths of a metre, directions and sector angles are whole     *)
(* degrees, the daytime window is tenths of an hour.  A timestamp is the   *)
(* number of 15-minute steps since local midnight of the first day.        *)
(***************************************************************************)
EXTENDS Integers, Sequences, FiniteSets, TLC

VARIABLES
    config,      \* the validated WindConfig held by the client and the renderer
    hourly,      \* Lh   : per spot, the rows of the hourly payload
    min15,       \* Lm15 : per spot, the rows of the 15-minute payload (<<>> when absent)
    waves,       \* Lw   : per spot, the rows of the marine payload
    pc,          \* position of the run: "fetched", "processed", "rendered"
    df_concat,   \* per spot, df after pd.concat
    df_joined,   \* per spot, df after the left join with the wave frame
    df_day,      \* per spot, df after the daytime filter
    df_final,    \* per spot, the frame _build_df returns
    result,      \* the "spots" list returned by _process_forecasts
    cells,       \* per spot, the cells render_html computes for the rows
    report,      \* what render_html puts in the two views (<<>> before it ran)
    legacy,      \* the table built by main() of the stand-alone render.py
    cli          \* the run of cli.main: its inputs, position, steps and exit code

vars == <<config, hourly, min15, waves, pc, df_concat, df_joined, df_day,
          df_final, result, cells, report, legacy, cli>>

-----------------------------------------------------------------------------
(* Bounds of the model *)

NumHours == 3       \* hours 0 .. NumHours-1 of the forecast horizon
NumQuarters == 5    \* 15-minute steps 0 .. NumQuarters-1 the 15-minute feed may cover
NumSlots == 3       \* 15-minute samples a spot may have inside one hour of the report

(* Program constants *)

NaN == -1                 \* a null of the payload / pandas NaN; no measurement is negative
StepsPerHour == 4         \* 15-minute steps in one hour
HoursPerDay == 24
KiteableFloor == 120      \* df["wind_kn"] >= 12.0

Hours == 0 .. (NumHours - 1)
Quarters == 0 .. (NumQuarters - 1)

-----------------------------------------------------------------------------
(* schemas.py : validation of the configuration *)

\* DirectionSector.validate_sector: the sector after the model validator
DirectionSectorValidate(s) ==
    IF ~s.wrap /\ s.start > s.end
    THEN [s EXCEPT !.end = IF s.start > s.end THEN s.end + 360 ELSE s.end]
    ELSE s

\* DirectionSector field bounds (checked before the model validator runs)
DirectionSectorFieldsOk(s) ==
    /\ 0 <= s.start /\ s.start <= 360
    /\ 0 <= s.end /\ s.end <= 360

\* Conditions.validate_bands: TRUE iff no ValueError is raised
ValidateBands(bands) ==
    /\ bands # <<>>
    /\ \A i \in 1 .. (Len(bands) - 1) : bands[i].thr > bands[i + 1].thr

\* TimeWindow.validate_window: TRUE iff no ValueError is raised
ValidateWindow(w) ==
    /\ 0 <= w.day_start /\ w.day_start <= 230
    /\ 0 <= w.day_end /\ w.day_end <= 230
    /\ ~(w.day_end < w.day_start)

\* one entry of ValidationError.errors(): its type, its message and, for a
\* bound, the bound of its ctx
Error(type, msg, bound) == [type |-> type, msg |-> msg, bound |-> bound]

\* Field(ge=lo, le=hi): the error of a value outside the bounds, if any
FieldErrors(v, lo, hi) ==
    IF v < lo
    THEN <<Error("greater_than_equal", "Input should be greater than or equal to", lo)>>
    ELSE IF v > hi
    THEN <<Error("less_than_equal", "Input should be less than or equal to", hi)>>
    ELSE <<>>

\* a ValueError raised by a model validator
ValueError(msg) == Error("value_error", msg, 0)

\* DirectionSector: the errors of start and end
DirectionSectorErrors(s) ==
    FieldErrors(s.start, 0, 360) \o FieldErrors(s.end, 0, 360)

\* WindSpot: the errors of lat, then those of dir_sector
WindSpotErrors(spot) ==
    FieldErrors(spot.lat, -90, 90) \o DirectionSectorErrors(spot.dir_sector)

\* the errors of the list of spots: min_length=1, then spot after spot
RECURSIVE SpotListErrors(_)
SpotListErrors(spots) ==
    IF spots = <<>> THEN <<>>
    ELSE WindSpotErrors(Head(spots)) \o SpotListErrors(Tail(spots))

SpotsErrors(spots) ==
    IF spots = <<>>
    THEN <<Error("too_short", "List should have at least 1 item after validation, not 0", 1)>>
    ELSE SpotListErrors(spots)

\* TimeWindow: the errors of the two fields; validate_window runs only when
\* there is none
TimeWindowErrors(w) ==
    IF FieldErrors(w.day_start, 0, 230) \o FieldErrors(w.day_end, 0, 230) # <<>>
    THEN FieldErrors(w.day_start, 0, 230) \o FieldErrors(w.day_end, 0, 230)
    ELSE IF w.day_end < w.day_start
    THEN <<ValueError("day_end must be after day_start")>>
    ELSE <<>>

\* variant: equal adjacent thresholds accepted
ValidateBandsMessageLoose(bands) ==
    IF bands = <<>> THEN "Must provide at least one band"
    ELSE IF ~(\A i \in 1 .. (Len(bands) - 1) : bands[i].thr >= bands[i + 1].thr)
    THEN "Band thresholds must be in strictly descending order"
    ELSE ""

\* Conditions.validate_bands: the message of the ValueError raised, "" if none
ValidateBandsMessage(bands) ==
    IF bands = <<>> THEN "Must provide at least one band"
    ELSE IF ~(\A i \in 1 .. (Len(bands) - 1) : bands[i].thr > bands[i + 1].thr)
    THEN "Band thresholds must be in strictly descending order"
    ELSE ""

\* Conditions: the error of rain_limit (ge=0); validate_bands runs only when
\* there is none
ConditionsErrors(c) ==
    IF c.rain_limit < 0
    THEN <<Error("greater_than_equal", "Input should be greater than or equal to", 0)>>
    ELSE IF ValidateBandsMessage(c.bands) # ""
    THEN <<ValueError(ValidateBandsMessage(c.bands))>>
    ELSE <<>>

\* WindConfig.model_validate(data): the errors in the order of the fields
\* spots, time_window, conditions
WindConfigErrors(data) ==
    SpotsErrors(data.spots) \o TimeWindowErrors(data.time_window)
        \o ConditionsErrors(data.conditions)

\* the WindConfig built from valid data: sectors after validate_sector
WindConfigValidated(data) ==
    [spots |-> [i \in 1 .. Len(data.spots) |->
                   [name |-> data.spots[i].name,
                    dir_sector |-> <<DirectionSectorValidate(data.spots[i].dir_sector)>>]],
     time_window |-> data.time_window,
     conditions |-> data.conditions]

-----------------------------------------------------------------------------
(* config.py : load_config *)

\* the message load_config puts in its ValueError for a validation error
ErrorMessage(error) ==
    CASE error.type = "less_than_equal" ->
            <<"Input should be less than or equal to", error.bound>>
      [] error.type = "greater_than_equal" ->
            <<"Input should be greater than or equal to", error.bound>>
      [] error.type = "greater_than" ->
            <<"Input should be greater than", error.bound>>
      [] error.type = "value_error" ->
            IF error.msg \in {"day_end must be after day_start",
                              "Band thresholds must be in strictly descending order"}
            THEN <<error.msg>>
            ELSE <<"Value error", error.msg>>
      [] OTHER -> <<error.msg>>

\* variant: a configuration object is returned whatever the validation says
load_config_lenient(file) ==
    IF ~file.exists
    THEN [raised |-> "FileNotFoundError", msg |-> <<"Could not find config.json">>,
          errors |-> <<>>, config |-> <<>>]
    ELSE IF ~file.json
    THEN [raised |-> "ValueError", msg |-> <<"Invalid JSON in config file">>,
          errors |-> <<>>, config |-> <<>>]
    ELSE [raised |-> "", msg |-> <<>>, errors |-> <<>>,
          config |-> <<WindConfigValidated(file.data[1])>>]

\* load_config: the exception raised ("" if none), its message, the errors of
\* the ValidationError it caught, and the WindConfig returned (<<>> if none)
load_config(file) ==
    IF ~file.exists
    THEN [raised |-> "FileNotFoundError", msg |-> <<"Could not find config.json">>,
          errors |-> <<>>, config |-> <<>>]
    ELSE IF ~file.json
    THEN [raised |-> "ValueError", msg |-> <<"Invalid JSON in config file">>,
          errors |-> <<>>, config |-> <<>>]
    ELSE IF WindConfigErrors(file.data[1]) # <<>>
    THEN [raised |-> "ValueError", msg |-> ErrorMessage(WindConfigErrors(file.data[1])[1]),
          errors |-> WindConfigErrors(file.data[1]), config |-> <<>>]
    ELSE [raised |-> "", msg |-> <<>>, errors |-> <<>>,
          config |-> <<WindConfigValidated(file.data[1])>>]

-----------------------------------------------------------------------------
(* forecast.py : helpers of _process_forecasts *)

RECURSIVE ScanBandsStrict(_, _)
ScanBandsStrict(kn, bands) ==
    IF bands = <<>> THEN "below"
    ELSE IF kn > Head(bands).thr THEN Head(bands).label
    ELSE ScanBandsStrict(kn, Tail(bands))

RECURSIVE ScanBandsLe(_, _)
ScanBandsLe(kn, bands) ==
    IF bands = <<>> THEN "below"
    ELSE IF kn <= Head(bands).thr THEN Head(bands).label
    ELSE ScanBandsLe(kn, Tail(bands))

\* _classify_band: scan of the band table from its first entry
RECURSIVE ScanBands(_, _)
ScanBands(kn, bands) ==
    IF bands = <<>> THEN "below"
    ELSE IF kn >= Head(bands).thr THEN Head(bands).label
    ELSE ScanBands(kn, Tail(bands))

\* _classify_band
_classify_band(kn, bands) == ScanBands(kn, bands)

_direction_in_sector_and(deg, sector) ==
    IF sector = <<>> THEN TRUE
    ELSE LET start == sector[1].start
             end   == sector[1].end
             wrap  == sector[1].wrap
         IN  IF ~wrap THEN start <= deg /\ deg <= end
             ELSE (deg >= start) /\ (deg <= end)

\* _direction_in_sector; sector is <<>> (None) or <<[start, end, wrap]>>
_direction_in_sector(deg, sector) ==
    IF sector = <<>> THEN TRUE
    ELSE LET start == sector[1].start
             end   == sector[1].end
             wrap  == sector[1].wrap
         IN  IF ~wrap THEN start <= deg /\ deg <= end
             ELSE (deg >= start) \/ (deg <= end)

\* _deg_to_16pt: int((d + 11.25) // 22.5) % 16 into the label list
CompassLabels ==
    <<"N", "NNE", "NE", "ENE", "E", "ESE", "SE", "SSE",
      "S", "SSW", "SW", "WSW", "W", "WNW", "NW", "NNW">>

_deg_to_16pt(d) == CompassLabels[(((d * 100 + 1125) \div 2250) % 16) + 1]

-----------------------------------------------------------------------------
(* forecast.py : _build_df, stage by stage *)

\* dfh / dfm: the payload rows with the freq column
Frame(rows, freq) ==
    [i \in 1 .. Len(rows) |->
        [time |-> rows[i].time, wind_kn |-> rows[i].wind_kn,
         gust_kn |-> rows[i].gust_kn, dir_deg |-> rows[i].dir_deg,
         precip |-> rows[i].precip, freq |-> freq]]

\* dfm["time"].max()
MaxTime(df) ==
    CHOOSE t \in {df[i].time : i \in 1 .. Len(df)} :
        \A i \in 1 .. Len(df) : df[i].time <= t

HourlyTailGe(dfh, dfm) == SelectSeq(dfh, LAMBDA r : r.time >= MaxTime(dfm))

\* dfh[dfh["time"] > dfm["time"].max()]
HourlyTail(dfh, dfm) == SelectSeq(dfh, LAMBDA r : r.time > MaxTime(dfm))

ConcatAll(dfm, dfh) == dfm \o dfh

ConcatNaT(dfm, dfh) == dfm \o (IF dfm # <<>> THEN HourlyTail(dfh, dfm) ELSE <<>>)

\* pd.concat([dfm, <tail of dfh> if not dfm.empty else dfh], ignore_index=True)
Concat(dfm, dfh) == dfm \o (IF dfm # <<>> THEN HourlyTail(dfh, dfm) ELSE dfh)

\* df.merge(dfw, on="time", how="left"): one row per matching wave row,
\* one row with a NaN wave when there is none
WithWave(r, wave) ==
    [time |-> r.time, wind_kn |-> r.wind_kn, gust_kn |-> r.gust_kn,
     dir_deg |-> r.dir_deg, precip |-> r.precip, freq |-> r.freq,
     wave_m |-> wave]

RECURSIVE MergeWaves(_, _)
MergeWaves(df, dfw) ==
    IF df = <<>> THEN <<>>
    ELSE LET r == Head(df)
             m == SelectSeq(dfw, LAMBDA w : w.time = r.time)
         IN  (IF m = <<>> THEN <<WithWave(r, NaN)>>
              ELSE [i \in 1 .. Len(m) |-> WithWave(r, m[i].wave_m)])
             \o MergeWaves(Tail(df), dfw)

\* df["time"].dt.hour
LocalHour(t) == (t \div StepsPerHour) % HoursPerDay

\* variant: the window compared with the time of day, minutes included
InDaytimeMinutes(r, w) ==
    /\ (r.time % (StepsPerHour * HoursPerDay)) * 10 >= w.day_start * StepsPerHour
    /\ (r.time % (StepsPerHour * HoursPerDay)) * 10 <= w.day_end * StepsPerHour

\* the daytime filter: day_start <= local_hour <= day_end
InDaytime(r, w) ==
    /\ LocalHour(r.time) * 10 >= w.day_start
    /\ LocalHour(r.time) * 10 <= w.day_end

DaytimeFilter(df, w) == SelectSeq(df, LAMBDA r : InDaytime(r, w))

\* df.dropna(inplace=True): a row with a NaN in any column is dropped
HasNaN(r) ==
    \/ r.wind_kn = NaN \/ r.gust_kn = NaN \/ r.dir_deg = NaN
    \/ r.precip = NaN \/ r.wave_m = NaN

Dropna(df) == SelectSeq(df, LAMBDA r : ~HasNaN(r))

\* the condition columns
DirOk(r, spot) == _direction_in_sector(r.dir_deg, spot.dir_sector)
RainOkStrict(r, cond) == r.precip < cond.rain_limit

RainOk(r, cond) == r.precip <= cond.rain_limit

SpeedOkLowestBand(r) ==
    r.wind_kn >= config.conditions.bands[Len(config.conditions.bands)].thr

SpeedOk(r) == r.wind_kn >= KiteableFloor

Analyze(r, spot, cond) ==
    LET dir_ok   == DirOk(r, spot)
        rain_ok  == RainOk(r, cond)
        speed_ok == SpeedOk(r)
        valid    == dir_ok /\ rain_ok /\ speed_ok
    IN  [spot |-> spot.name, time |-> r.time, wind_kn |-> r.wind_kn,
         gust_kn |-> r.gust_kn, dir_deg |-> r.dir_deg, precip |-> r.precip,
         wave_m |-> r.wave_m, freq |-> r.freq,
         dir_ok |-> dir_ok, rain_ok |-> rain_ok, speed_ok |-> speed_ok,
         band |-> _classify_band(r.wind_kn, cond.bands), kiteable |-> valid]

\* sort_values("time")
RECURSIVE InsertByTime(_, _)
InsertByTime(r, s) ==
    IF s = <<>> THEN <<r>>
    ELSE IF r.time < Head(s).time THEN <<r>> \o s
    ELSE <<Head(s)>> \o InsertByTime(r, Tail(s))

RECURSIVE SortByTime(_)
SortByTime(df) ==
    IF df = <<>> THEN <<>>
    ELSE InsertByTime(df[Len(df)], SortByTime(SubSeq(df, 1, Len(df) - 1)))

BuildConcat(h, m15) == Concat(Frame(m15, "15min"), Frame(h, "H"))
BuildJoined(h, m15, wav) == MergeWaves(BuildConcat(h, m15), wav)
BuildDay(h, m15, wav, cfg) == DaytimeFilter(BuildJoined(h, m15, wav), cfg.time_window)

_build_df(spot, h, m15, wav, cfg) ==
    LET df == Dropna(BuildDay(h, m15, wav, cfg))
    IN  SortByTime([i \in 1 .. Len(df) |-> Analyze(df[i], spot, cfg.conditions)])

\* the dict appended to rows for one row of the frame
RowDict(r) ==
    [time |-> r.time, wind_kn |-> r.wind_kn, gust_kn |-> r.gust_kn,
     dir_deg |-> r.dir_deg, dir |-> _deg_to_16pt(r.dir_deg),
     precip_mm_h |-> r.precip, wave_m |-> r.wave_m,
     band |-> r.band, kiteable |-> r.kiteable]

SpotResult(spot, df) ==
    [spot |-> spot.name, rows |-> [i \in 1 .. Len(df) |-> RowDict(df[i])]]

\* variant: every spot built from the payloads of the first one
_process_forecasts_first(cfg, Lh, Lm15, Lw) ==
    [i \in 1 .. Len(cfg.spots) |->
        SpotResult(cfg.spots[i], _build_df(cfg.spots[i], Lh[1], Lm15[1], Lw[1], cfg))]

\* the loop "for i, spot in enumerate(self.config.spots)": the list "spots"
\* of the returned dict
_process_forecasts(cfg, Lh, Lm15, Lw) ==
    [i \in 1 .. Len(cfg.spots) |->
        SpotResult(cfg.spots[i], _build_df(cfg.spots[i], Lh[i], Lm15[i], Lw[i], cfg))]


-----------------------------------------------------------------------------
(* render.py : star rating and the cells of the report *)

\* star_mapping.get(band_name, 0)
\* variant: the table capped at five stars
StarMappingFive(label) ==
    CASE label \in {"insane", "great"} -> 5
      [] label = "very good" -> 4
      [] label \in {"good", "hardcore"} -> 3
      [] label = "ok" -> 2
      [] label = "light" -> 1
      [] OTHER -> 0

StarMapping(label) ==
    CASE label = "hardcore" -> 3
      [] label = "insane" -> 6
      [] label = "great" -> 5
      [] label = "very good" -> 4
      [] label = "good" -> 3
      [] label = "ok" -> 2
      [] label = "light" -> 1
      [] label = "below" -> 0
      [] OTHER -> 0

\* the loop "for band_name, threshold in bands" of _calculate_stars
RECURSIVE ScanStars(_, _)
ScanStars(wind_kn, bands) ==
    IF bands = <<>> THEN 0
    ELSE IF wind_kn >= Head(bands).thr THEN StarMapping(Head(bands).label)
    ELSE ScanStars(wind_kn, Tail(bands))

_calculate_stars_noskip(wind_kn, cfg) == ScanStars(wind_kn, cfg.conditions.bands)

\* ReportRenderer._calculate_stars
_calculate_stars(wind_kn, cfg) ==
    LET bands == cfg.conditions.bands
    IN  IF wind_kn >= bands[1].thr THEN 0
        ELSE ScanStars(wind_kn, bands)

\* band_name.lower().replace(" ", "-") on the labels of the model
CssClass(label) ==
    CASE label = "too much" -> "too-much"
      [] label = "very good" -> "very-good"
      [] OTHER -> label

\* the stars and the band class of one data cell (generate_table_section)
Cell(r, cfg) ==
    [stars |-> IF r.kiteable THEN _calculate_stars(r.wind_kn, cfg) ELSE 0,
     wind_band |-> CssClass(ScanBands(r.wind_kn, cfg.conditions.bands)),
     kiteable |-> r.kiteable]

\* all_hours: the set of row times over all spots
AllHours(res) ==
    UNION {{res[i].rows[j].time : j \in 1 .. Len(res[i].rows)} : i \in 1 .. Len(res)}

\* the spots with a row at time t
SpotsAt(res, t) ==
    {res[i].spot : i \in {k \in 1 .. Len(res) :
                             \E j \in 1 .. Len(res[k].rows) : res[k].rows[j].time = t}}

\* all_forecasts[time][spot] = r: the last row written for (time, spot)
LastRow(res, t, name) ==
    LET i == CHOOSE k \in 1 .. Len(res) :
                 /\ res[k].spot = name
                 /\ \E j \in 1 .. Len(res[k].rows) : res[k].rows[j].time = t
                 /\ \A k2 \in (k + 1) .. Len(res) :
                       ~(/\ res[k2].spot = name
                         /\ \E j \in 1 .. Len(res[k2].rows) : res[k2].rows[j].time = t)
        j == CHOOSE n \in 1 .. Len(res[i].rows) :
                 /\ res[i].rows[n].time = t
                 /\ \A n2 \in (n + 1) .. Len(res[i].rows) : res[i].rows[n2].time # t
    IN  res[i].rows[j]

AllForecasts(res) ==
    [t \in AllHours(res) |-> [name \in SpotsAt(res, t) |-> LastRow(res, t, name)]]

\* the data cells of the all-conditions tables, by hour and spot
Cells(res, cfg) ==
    LET all_forecasts == AllForecasts(res)
    IN  [t \in DOMAIN all_forecasts |->
            [name \in DOMAIN all_forecasts[t] |-> Cell(all_forecasts[t][name], cfg)]]

\* the ascending sequence of the elements of a finite set of integers
RECURSIVE Asc(_)
Asc(S) ==
    IF S = {} THEN <<>>
    ELSE LET m == CHOOSE x \in S : \A y \in S : x <= y
         IN  <<m>> \o Asc(S \ {m})

\* datetime.fromisoformat(hour).date(): the day a timestamp falls on
DayOf(t) == t \div (StepsPerHour * HoursPerDay)

\* all_spots
AllSpots(res) == {res[i].spot : i \in 1 .. Len(res)}

\* all_days, from all_hours (the keys of all_forecasts)
AllDays(all_forecasts) == {DayOf(t) : t \in DOMAIN all_forecasts}

\* the hours of a day at which the spot has a kiteable forecast
KiteableTimes(all_forecasts, day, name) ==
    {t \in DOMAIN all_forecasts :
        /\ DayOf(t) = day
        /\ name \in DOMAIN all_forecasts[t]
        /\ all_forecasts[t][name].kiteable}

\* kiteable_hours_by_day[day]: the hours of the day at which a spot is kiteable
KiteableHoursByDay(all_forecasts, day) ==
    {t \in DOMAIN all_forecasts :
        /\ DayOf(t) = day
        /\ \E name \in DOMAIN all_forecasts[t] : all_forecasts[t][name].kiteable}

\* the keys of spot_kiteable_hours[day]: the spots kiteable that day
SpotKiteableHours(all_forecasts, all_spots, day) ==
    {name \in all_spots : KiteableTimes(all_forecasts, day, name) # {}}

\* kiteable_forecasts after the removal of the hours without a kiteable spot
KiteableForecasts(all_forecasts) ==
    [t \in {h \in DOMAIN all_forecasts :
               \E name \in DOMAIN all_forecasts[h] : all_forecasts[h][name].kiteable} |->
        [name \in {n \in DOMAIN all_forecasts[t] : all_forecasts[t][n].kiteable} |->
            all_forecasts[t][name]]]

\* variant: every spot counted as kiteable
KiteableSpotsAll(all_forecasts, all_spots) == all_spots

\* kiteable_spots
KiteableSpots(all_forecasts, all_spots) ==
    UNION {SpotKiteableHours(all_forecasts, all_spots, d) : d \in AllDays(all_forecasts)}

\* the order of Python strings on the spot names of the model
SpotNameRank(name) ==
    CASE name = "Spot1" -> 1
      [] name = "Spot2" -> 2
      [] name = "Test Spot" -> 3

\* sorted(..., key=lambda s: (len(spot_kiteable_hours[day].get(s, set())), s),
\* reverse=True)
RECURSIVE SortSpots(_, _, _)
SortSpots(S, all_forecasts, day) ==
    IF S = {} THEN <<>>
    ELSE LET m == CHOOSE x \in S : \A y \in S :
                      \/ Cardinality(KiteableTimes(all_forecasts, day, x))
                            > Cardinality(KiteableTimes(all_forecasts, day, y))
                      \/ /\ Cardinality(KiteableTimes(all_forecasts, day, x))
                               = Cardinality(KiteableTimes(all_forecasts, day, y))
                         /\ SpotNameRank(x) >= SpotNameRank(y)
         IN  <<m>> \o SortSpots(S \ {m}, all_forecasts, day)

\* variant: every hour of the day in both views
DayHoursAll(all_forecasts, day, view_type) ==
    Asc({t \in DOMAIN all_forecasts : DayOf(t) = day})

\* day_hours of generate_table_section
DayHours(all_forecasts, day, view_type) ==
    IF view_type = "kiteable"
    THEN Asc(KiteableHoursByDay(all_forecasts, day))
    ELSE Asc({t \in DOMAIN all_forecasts : DayOf(t) = day})

\* variant: every spot in both views
DailySpotsAll(all_forecasts, all_spots, day, view_type) ==
    SortSpots(all_spots, all_forecasts, day)

\* daily_spots of generate_table_section
DailySpots(all_forecasts, all_spots, day, view_type) ==
    IF view_type = "kiteable"
    THEN SortSpots(SpotKiteableHours(all_forecasts, all_spots, day), all_forecasts, day)
    ELSE SortSpots(all_spots, all_forecasts, day)

\* variant: a non-kiteable data cell is hidden in either view
TableCellHideAll(all_forecasts, cfg, day, forecast_data, view_type, name, hour) ==
    IF hour \in DOMAIN forecast_data /\ name \in DOMAIN forecast_data[hour]
    THEN [kind |-> "cell-data",
          stars |-> Cell(forecast_data[hour][name], cfg).stars,
          wind_band |-> Cell(forecast_data[hour][name], cfg).wind_band,
          kiteable |-> forecast_data[hour][name].kiteable,
          hidden |-> ~forecast_data[hour][name].kiteable]
    ELSE [kind |-> "no-data", stars |-> 0, wind_band |-> "", kiteable |-> FALSE,
          hidden |-> FALSE]

\* one <td> of generate_table_section: a data cell or the no-data cell
TableCell(all_forecasts, cfg, day, forecast_data, view_type, name, hour) ==
    IF hour \in DOMAIN forecast_data /\ name \in DOMAIN forecast_data[hour]
    THEN [kind |-> "cell-data",
          stars |-> Cell(forecast_data[hour][name], cfg).stars,
          wind_band |-> Cell(forecast_data[hour][name], cfg).wind_band,
          kiteable |-> forecast_data[hour][name].kiteable,
          hidden |-> /\ ~forecast_data[hour][name].kiteable
                     /\ view_type = "kiteable"
                     /\ hour \in KiteableHoursByDay(all_forecasts, day)]
    ELSE [kind |-> "no-data", stars |-> 0, wind_band |-> "", kiteable |-> FALSE,
          hidden |-> FALSE]

\* generate_table_section: <<>> for the empty string, else <<the day section>>
generate_table_section(all_forecasts, all_spots, cfg, day, forecast_data, view_type) ==
    IF DayHours(all_forecasts, day, view_type) = <<>> THEN <<>>
    ELSE <<[day |-> day,
            hours |-> DayHours(all_forecasts, day, view_type),
            spots |-> DailySpots(all_forecasts, all_spots, day, view_type),
            cells |->
              [name \in IF view_type = "kiteable"
                        THEN SpotKiteableHours(all_forecasts, all_spots, day)
                        ELSE all_spots |->
                 [hour \in IF view_type = "kiteable"
                           THEN KiteableHoursByDay(all_forecasts, day)
                           ELSE {t \in DOMAIN all_forecasts : DayOf(t) = day} |->
                    TableCell(all_forecasts, cfg, day, forecast_data, view_type,
                              name, hour)]]]>>

\* the sections of one view, day after day, without the empty ones
RECURSIVE Sections(_, _, _, _, _, _)
Sections(all_forecasts, all_spots, cfg, days, forecast_data, view_type) ==
    IF days = <<>> THEN <<>>
    ELSE generate_table_section(all_forecasts, all_spots, cfg, Head(days),
                                forecast_data, view_type)
         \o Sections(all_forecasts, all_spots, cfg, Tail(days), forecast_data,
                     view_type)

\* sum(f[field] for f in forecasts) over the kiteable forecasts at the hours T
RECURSIVE SumOver(_, _, _, _)
SumOver(all_forecasts, name, T, field) ==
    IF T = {} THEN 0
    ELSE all_forecasts[CHOOSE x \in T : TRUE][name][field]
         + SumOver(all_forecasts, name, T \ {CHOOSE x \in T : TRUE}, field)

\* variant: the smallest gust
MinGust(all_forecasts, name, T) ==
    CHOOSE g \in {all_forecasts[t][name].gust_kn : t \in T} :
        \A t \in T : all_forecasts[t][name].gust_kn >= g

\* max(f["gust_kn"] for f in forecasts)
MaxGust(all_forecasts, name, T) ==
    CHOOSE g \in {all_forecasts[t][name].gust_kn : t \in T} :
        \A t \in T : all_forecasts[t][name].gust_kn <= g

\* best_forecast["stars"]: the stars of max(forecasts, key=stars)
BestStars(all_forecasts, cfg, name, T) ==
    CHOOSE n \in {_calculate_stars(all_forecasts[t][name].wind_kn, cfg) : t \in T} :
        \A t \in T : _calculate_stars(all_forecasts[t][name].wind_kn, cfg) <= n

\* the <li> of one spot in a day of the summary, from days_data[day][spot],
\* the kiteable forecasts at the hours T; avg_wind is kept as the quotient
\* wind_sum / count that the page prints with one decimal
SpotSummary(all_forecasts, cfg, name, T) ==
    [count     |-> Cardinality(T),
     first     |-> Asc(T)[1] % (StepsPerHour * HoursPerDay),
     last      |-> Asc(T)[Cardinality(T)] % (StepsPerHour * HoursPerDay),
     wind_sum  |-> SumOver(all_forecasts, name, T, "wind_kn"),
     max_gust  |-> MaxGust(all_forecasts, name, T),
     stars     |-> BestStars(all_forecasts, cfg, name, T)]

\* variant: a day-summary section for every day that has forecasts
DaySummaryAlways(all_forecasts, all_spots, cfg, day) ==
    <<[day |-> day,
       spots |-> [name \in SpotKiteableHours(all_forecasts, all_spots, day) |->
                     SpotSummary(all_forecasts, cfg, name,
                                 KiteableTimes(all_forecasts, day, name))]]>>

\* the day-summary section of a day: none when no spot is kiteable that day
DaySummary(all_forecasts, all_spots, cfg, day) ==
    IF SpotKiteableHours(all_forecasts, all_spots, day) = {} THEN <<>>
    ELSE <<[day |-> day,
            spots |-> [name \in SpotKiteableHours(all_forecasts, all_spots, day) |->
                          SpotSummary(all_forecasts, cfg, name,
                                      KiteableTimes(all_forecasts, day, name))]]>>

\* the day-summary sections, day after day
RECURSIVE DaySummaries(_, _, _, _)
DaySummaries(all_forecasts, all_spots, cfg, days) ==
    IF days = <<>> THEN <<>>
    ELSE DaySummary(all_forecasts, all_spots, cfg, Head(days))
         \o DaySummaries(all_forecasts, all_spots, cfg, Tail(days))

\* _generate_daily_summary: <<>> for None, else <<the summary block>>
_generate_daily_summary(all_forecasts, all_spots, cfg) ==
    IF DOMAIN all_forecasts = {} THEN <<>>
    ELSE <<[sections |-> DaySummaries(all_forecasts, all_spots, cfg,
                                      Asc(AllDays(all_forecasts)))]>>

\* render_html: what the kiteable view and the all-conditions view contain
render_html(all_forecasts, all_spots, cfg, include_summary) ==
    [include_summary |-> include_summary,
     summary  |-> IF include_summary
                  THEN _generate_daily_summary(all_forecasts, all_spots, cfg)
                  ELSE <<>>,
     notice   |-> KiteableSpots(all_forecasts, all_spots) = {},
     kiteable |-> Sections(all_forecasts, all_spots, cfg, Asc(AllDays(all_forecasts)),
                           KiteableForecasts(all_forecasts), "kiteable"),
     all      |-> Sections(all_forecasts, all_spots, cfg, Asc(AllDays(all_forecasts)),
                           all_forecasts, "all")]

-----------------------------------------------------------------------------
(* src/render.py : the stand-alone renderer with one column per hour *)

\* variant: the five-star scheme applied whatever the kiteable flag
stars_for_any(row) ==
    CASE row.wind_kn >= 250 -> 5
      [] row.wind_kn >= 200 -> 4
      [] row.wind_kn >= 170 -> 3
      [] row.wind_kn >= 150 -> 2
      [] row.wind_kn >= 120 -> 1
      [] OTHER -> 0

\* stars_for(row): the plain five-star scheme on fixed knot cutoffs
stars_for(row) ==
    IF ~row.kiteable THEN 0
    ELSE CASE row.wind_kn >= 250 -> 5
           [] row.wind_kn >= 200 -> 4
           [] row.wind_kn >= 170 -> 3
           [] row.wind_kn >= 150 -> 2
           [] row.wind_kn >= 120 -> 1
           [] OTHER -> 0

\* hour_key(iso): the timestamp with minute, second and microsecond at 0
hour_key(t) == t - (t % StepsPerHour)

\* spot_rows[name]: the rows of the last entry of data["spots"] with that name
SpotRows(res, name) ==
    LET i == CHOOSE k \in 1 .. Len(res) :
                 /\ res[k].spot = name
                 /\ \A k2 \in (k + 1) .. Len(res) : res[k2].spot # name
    IN  res[i].rows

\* spots: the keys of spot_rows, in order of first appearance, that have a
\* kiteable row
LegacySpots(res) ==
    LET first == SelectSeq([i \in 1 .. Len(res) |-> i],
                     LAMBDA i : \A k \in 1 .. (i - 1) : res[k].spot # res[i].spot)
        names == [i \in 1 .. Len(first) |-> res[first[i]].spot]
    IN  SelectSeq(names, LAMBDA n :
            \E j \in 1 .. Len(SpotRows(res, n)) : SpotRows(res, n)[j].kiteable)

\* hour_to_times[hour], sorted
HourToTimes(res, hour) == Asc({t \in AllHours(res) : hour_key(t) = hour})

\* kiteable_hours
LegacyKiteableHours(res) ==
    UNION {{hour_key(res[i].rows[j].time) :
                j \in {n \in 1 .. Len(res[i].rows) : res[i].rows[n].kiteable}} :
           i \in 1 .. Len(res)}

\* hours_sorted
HoursSorted(res) ==
    Asc({hour_key(t) : t \in AllHours(res)} \cap LegacyKiteableHours(res))

\* by_spot_time[s].get(t): <<>> for None, else <<the last row of s at t>>
BySpotTime(res, name, t) ==
    LET rows == SpotRows(res, name)
        at == {j \in 1 .. Len(rows) : rows[j].time = t}
    IN  IF at = {} THEN <<>>
        ELSE <<rows[CHOOSE j \in at : \A j2 \in at : j2 <= j]>>

\* rows = [by_spot_time[s].get(t) for t in times if by_spot_time[s].get(t)]
RECURSIVE RowsInHour(_, _, _)
RowsInHour(res, name, times) ==
    IF times = <<>> THEN <<>>
    ELSE BySpotTime(res, name, Head(times)) \o RowsInHour(res, name, Tail(times))

\* the key (stars_for(r), r["wind_kn"]) of a is greater than that of b
KeyGreater(a, b) ==
    \/ stars_for(a) > stars_for(b)
    \/ stars_for(a) = stars_for(b) /\ a.wind_kn > b.wind_kn

\* max(rows, key=...): the running maximum, replaced only by a greater key
RECURSIVE MaxFrom(_, _)
MaxFrom(best, rows) ==
    IF rows = <<>> THEN best
    ELSE MaxFrom(IF KeyGreater(Head(rows), best) THEN Head(rows) ELSE best,
                 Tail(rows))

\* variant: the maximum by star rating alone
BestOfStarsOnly(rows) ==
    IF rows = <<>> THEN <<>>
    ELSE <<CHOOSE r \in {rows[i] : i \in 1 .. Len(rows)} :
              /\ \A i \in 1 .. Len(rows) : stars_for(rows[i]) <= stars_for(r)
              /\ \A i \in 1 .. Len(rows) :
                    stars_for(rows[i]) = stars_for(r) => r.time <= rows[i].time>>

\* best = max(rows, key=...) if rows else None
BestOf(rows) ==
    IF rows = <<>> THEN <<>> ELSE <<MaxFrom(Head(rows), Tail(rows))>>

\* main(): the table written to out/report.html, or the early return
main(res) ==
    LET spots == LegacySpots(res)
        hours_sorted == HoursSorted(res)
        spotset == {spots[i] : i \in 1 .. Len(spots)}
        hourset == {hours_sorted[i] : i \in 1 .. Len(hours_sorted)}
    IN  IF spots = <<>>
        THEN [wrote |-> FALSE, spots |-> <<>>, hours_sorted |-> <<>>, best |-> <<>>]
        ELSE [wrote |-> TRUE, spots |-> spots, hours_sorted |-> hours_sorted,
              best |-> [name \in spotset |->
                          [h \in hourset |->
                             BestOf(RowsInHour(res, name, HourToTimes(res, h)))]]]

-----------------------------------------------------------------------------
(* Operations *)

SpotIdx == 1 .. Len(config.spots)

\* ForecastClient._process_forecasts: _build_df and the row dicts, spot by spot
ProcessForecasts ==
    /\ pc = "fetched"
    /\ df_concat' = [i \in SpotIdx |-> BuildConcat(hourly[i], min15[i])]
    /\ df_joined' = [i \in SpotIdx |-> BuildJoined(hourly[i], min15[i], waves[i])]
    /\ df_day' = [i \in SpotIdx |-> BuildDay(hourly[i], min15[i], waves[i], config)]
    /\ df_final' = [i \in SpotIdx |->
                      _build_df(config.spots[i], hourly[i], min15[i], waves[i], config)]
    /\ result' = _process_forecasts(config, hourly, min15, waves)
    /\ pc' = "processed"
    /\ UNCHANGED <<config, hourly, min15, waves, cells, report, legacy, cli>>

\* ReportRenderer.render_html: the cells of the report
RenderHtml ==
    /\ pc = "processed"
    /\ cells' = Cells(result, config)
    /\ \E include_summary \in BOOLEAN, all_forecasts \in {AllForecasts(result)} :
          report' = render_html(all_forecasts, AllSpots(result), config,
                                include_summary)
    /\ pc' = "rendered"
    /\ UNCHANGED <<config, hourly, min15, waves, df_concat, df_joined, df_day,
                   df_final, result, legacy, cli>>

\* python render.py, run on the windows.json that the forecast step wrote
LegacyMain ==
    /\ pc = "processed"
    /\ legacy' = main(result)
    /\ pc' = "legacy"
    /\ UNCHANGED <<config, hourly, min15, waves, df_concat, df_joined, df_day,
                   df_final, result, cells, report, cli>>

Next == ProcessForecasts \/ RenderHtml

\* the two renderers, each run on a given windows.json
NextRender == RenderHtml \/ LegacyMain

-----------------------------------------------------------------------------
(* cli.py : main *)

\* the keys of the dict returned by fetch_forecasts
FetchKeys == {"generated_at", "model_updates", "spots"}

\* the keys render_html reads with data[...]: spots and generated_at always,
\* config for every data cell of a table (model_updates is read with .get)
RenderReads(res) ==
    {"spots", "generated_at"}
        \cup (IF \E i \in DOMAIN res : res[i].rows # <<>> THEN {"config"} ELSE {})

\* the fields render_html reads from a row
RowReads == {"time", "kiteable", "wind_kn", "gust_kn", "dir", "wave_m", "precip_mm_h"}

\* one step of main has run with this outcome
Ran(c, name, outcome) == Append(c.trace, [step |-> name, outcome |-> outcome])

\* "except Exception": main logs the error and returns 1
Raised(c, name, error) ==
    [c EXCEPT !.trace = Ran(c, name, "raise"), !.error = error,
              !.step = "done", !.exit = <<1>>]

\* the step has succeeded and main goes on
Passed(c, name, step) == [c EXCEPT !.trace = Ran(c, name, "ok"), !.step = step]

\* variant: a JPG that was not generated does not change the exit code
JpgExitIgnore(outcome) == 0

\* the exit code after generate_jpg returned
JpgExit(outcome) == IF outcome = "true" THEN 0 ELSE 1

\* config = load_config(args.config)
CliLoadConfig ==
    /\ cli.step = "start"
    /\ \E r \in {load_config(cli.file)} :
          IF r.raised # ""
          THEN /\ cli' = [Raised(cli, "load_config", r.raised) EXCEPT !.load = r]
               /\ UNCHANGED config
          ELSE /\ cli' = [Passed(cli, "load_config", "loaded") EXCEPT !.load = r]
               /\ config' = r.config[1]
    /\ UNCHANGED <<hourly, min15, waves, pc, df_concat, df_joined, df_day, df_final,
                   result, cells, report, legacy>>

\* out_dir.mkdir(parents=True, exist_ok=True)
CliMkdir ==
    /\ cli.step = "loaded"
    /\ \E ok \in BOOLEAN :
          cli' = IF ok THEN Passed(cli, "mkdir", "dir")
                 ELSE Raised(cli, "mkdir", "OSError")
    /\ UNCHANGED <<config, hourly, min15, waves, pc, df_concat, df_joined, df_day,
                   df_final, result, cells, report, legacy>>

\* data = ForecastClient(config).fetch_forecasts(): a request may fail
CliFetch ==
    /\ cli.step = "dir"
    /\ \E ok \in BOOLEAN :
          IF ok
          THEN /\ result' = _process_forecasts(config, hourly, min15, waves)
               /\ cli' = [Passed(cli, "fetch_forecasts", "fetched") EXCEPT !.data = FetchKeys]
          ELSE /\ cli' = Raised(cli, "fetch_forecasts", "HTTPError")
               /\ UNCHANGED result
    /\ UNCHANGED <<config, hourly, min15, waves, pc, df_concat, df_joined, df_day,
                   df_final, cells, report, legacy>>

\* json.dump(data, f) to windows.json
CliWriteJson ==
    /\ cli.step = "fetched"
    /\ \E ok \in BOOLEAN :
          cli' = IF ok THEN Passed(cli, "write_json", "written")
                 ELSE Raised(cli, "write_json", "OSError")
    /\ UNCHANGED <<config, hourly, min15, waves, pc, df_concat, df_joined, df_day,
                   df_final, result, cells, report, legacy>>

\* renderer.render_html(data, html_path, include_summary=args.summary)
CliRender ==
    /\ cli.step = "written"
    /\ \E ok \in BOOLEAN, all_forecasts \in {AllForecasts(result)} :
          IF ~(RenderReads(result) \subseteq cli.data)
          THEN /\ cli' = Raised(cli, "render_html", "KeyError")
               /\ UNCHANGED <<cells, report>>
          ELSE IF ~ok
          THEN /\ cli' = Raised(cli, "render_html", "OSError")
               /\ UNCHANGED <<cells, report>>
          ELSE /\ cli' = Passed(cli, "render_html", "rendered")
               /\ cells' = Cells(result, config)
               /\ report' = render_html(all_forecasts, AllSpots(result), config,
                                        cli.summary)
    /\ UNCHANGED <<config, hourly, min15, waves, pc, df_concat, df_joined, df_day,
                   df_final, result, legacy>>

\* "if args.jpg": generate_jpg returns True or False, or raises
CliJpg ==
    /\ cli.step = "rendered"
    /\ cli.jpg
    /\ \E outcome \in {"true", "false", "raise"} :
          cli' = IF outcome = "raise"
                 THEN Raised(cli, "generate_jpg", "RuntimeError")
                 ELSE [cli EXCEPT !.trace = Ran(cli, "generate_jpg",
                                                IF outcome = "true" THEN "ok" ELSE "false"),
                                  !.step = "done",
                                  !.exit = <<JpgExit(outcome)>>]
    /\ UNCHANGED <<config, hourly, min15, waves, pc, df_concat, df_joined, df_day,
                   df_final, result, cells, report, legacy>>

\* "return 0" of a run without --jpg
CliReturn ==
    /\ cli.step = "rendered"
    /\ ~cli.jpg
    /\ cli' = [cli EXCEPT !.step = "done", !.exit = <<0>>]
    /\ UNCHANGED <<config, hourly, min15, waves, pc, df_concat, df_joined, df_day,
                   df_final, result, cells, report, legacy>>

NextCli ==
    CliLoadConfig \/ CliMkdir \/ CliFetch \/ CliWriteJson \/ CliRender \/ CliJpg
        \/ CliReturn

-----------------------------------------------------------------------------
(* Inputs *)

PayloadRow(t, v) ==
    [time |-> t, wind_kn |-> v.wind_kn, gust_kn |-> v.gust_kn,
     dir_deg |-> v.dir_deg, precip |-> v.precip]

\* the payloads whose time array is the ascending list of steps * T, with
\* values drawn from pool
SeriesOver(T, steps, pool) ==
    {[i \in 1 .. Len(Asc(T)) |-> PayloadRow(Asc(T)[i] * steps, f[Asc(T)[i]])] :
        f \in [T -> pool]}

\* hourly payloads: any ascending selection of hours
HourlyPayloads(pool) ==
    UNION {SeriesOver(T, StepsPerHour, pool) : T \in SUBSET Hours}

\* 15-minute payloads: absent/empty, or a contiguous run of steps
QuarterRuns == {{}} \cup {a .. b : a \in Quarters, b \in Quarters}

Min15Payloads(pool) == UNION {SeriesOver(T, 1, pool) : T \in QuarterRuns}

\* marine payloads: per hour no entry, a null entry or a height
WavePayloads(heights) ==
    UNION {{[i \in 1 .. Len(Asc(T)) |->
                [time |-> Asc(T)[i] * StepsPerHour, wave_m |-> f[Asc(T)[i]]]] :
              f \in [T -> heights]} : T \in SUBSET Hours}

Value(w, g, d, p) == [wind_kn |-> w, gust_kn |-> g, dir_deg |-> d, precip |-> p]

Band(l, t) == [label |-> l, thr |-> t]

Sector(s, e, w) == [start |-> s, end |-> e, wrap |-> w]

\* the band table and the sector of tests/conftest.py
SampleBands ==
    <<Band("too much", 400), Band("good", 170), Band("light", 120), Band("below", 0)>>

SampleSector == Sector(225, 45, TRUE)

MakeConfig(sector, window, bands, rain_limit) ==
    [spots |-> <<[name |-> "Test Spot", dir_sector |-> sector]>>,
     time_window |-> window,
     conditions |-> [bands |-> bands, rain_limit |-> rain_limit]]

Window(s, e) == [day_start |-> s, day_end |-> e]

Start ==
    /\ pc = "fetched"
    /\ df_concat = <<>> /\ df_joined = <<>> /\ df_day = <<>> /\ df_final = <<>>
    /\ result = <<>>
    /\ cells = <<>>
    /\ report = <<>>
    /\ legacy = <<>>
    /\ cli = <<>>

\* Merge scenarios: every shape of the three time arrays, few values
MergePoolH == {Value(180, 220, 270, 0), Value(NaN, 220, 270, 0)}
MergePoolM == {Value(160, 190, 300, 0), Value(160, 190, 300, NaN)}
MergeWindows == {w \in {Window(0, 230), Window(10, 20)} : ValidateWindow(w)}

InitMerge ==
    /\ config \in {MakeConfig(<<DirectionSectorValidate(SampleSector)>>, w, SampleBands, 5) :
                      w \in MergeWindows}
    /\ hourly \in {<<h>> : h \in HourlyPayloads(MergePoolH)}
    /\ min15 \in {<<m>> : m \in Min15Payloads(MergePoolM)}
    /\ waves \in {<<w>> : w \in WavePayloads({12})}
    /\ Start

SpecMerge == InitMerge /\ [][Next]_vars

\* Null scenarios: every field of a sample may be null, the wave series may
\* lack an hour or hold a null height
NullPool ==
    {Value(180, 220, 270, 0), Value(NaN, 220, 270, 0), Value(180, NaN, 270, 0),
     Value(180, 220, NaN, 0), Value(180, 220, 270, NaN), Value(180, NaN, 270, NaN)}

InitNulls ==
    /\ config = MakeConfig(<<DirectionSectorValidate(SampleSector)>>, Window(0, 10),
                           SampleBands, 5)
    /\ hourly \in {<<h>> : h \in SeriesOver({0, 1, 2}, StepsPerHour, NullPool)}
    /\ min15 \in {<<m>> : m \in {<<>>} \cup SeriesOver({0}, 1, NullPool)}
    /\ waves \in {<<w>> : w \in WavePayloads({NaN, 12})}
    /\ Start

SpecNulls == InitNulls /\ [][Next]_vars

\* Classification scenarios: two hourly samples, every sector shape, band
\* table, rain limit and boundary value
RawSectors ==
    {Sector(225, 45, TRUE), Sector(45, 225, TRUE), Sector(90, 180, FALSE),
     Sector(300, 60, FALSE), Sector(0, 360, FALSE), Sector(400, 20, FALSE)}

Sectors ==
    {<<>>} \cup {<<DirectionSectorValidate(x)>> : x \in {y \in RawSectors : DirectionSectorFieldsOk(y)}}

\* the band table of tests/test_render.py
NineBands ==
    <<Band("too much", 400), Band("hardcore", 350), Band("insane", 300),
      Band("great", 250), Band("very good", 200), Band("good", 170),
      Band("ok", 150), Band("light", 120), Band("below", 0)>>

RawBandTables ==
    {<<>>,
     <<Band("good", 170), Band("light", 170)>>,
     <<Band("light", 120), Band("good", 170)>>,
     SampleBands,
     <<Band("insane", 300), Band("great", 250), Band("very good", 200),
       Band("good", 170), Band("ok", 150), Band("light", 120)>>,
     <<Band("light", 80)>>,
     <<Band("hardcore", 350), Band("custom", 100)>>}

BandTables == {b \in RawBandTables : ValidateBands(b)}

WindValues == {70, 119, 120, 170, 250, 300, 400, 450}
DirValues == {0, 45, 90, 100, 180, 225, 300, 360}
PrecipValues == {0, 5, 6}
RainLimits == {0, 5}

\* the direction opposite to d
Opposite(d) == (d + 180) % 360

InitClassify ==
    /\ config \in {MakeConfig(sec, Window(0, 230), b, rl) :
                      sec \in Sectors, b \in BandTables, rl \in RainLimits}
    /\ hourly \in {<<<<PayloadRow(0, Value(w1, w1 + 40, d, p)),
                        PayloadRow(StepsPerHour, Value(w2, w2 + 40, Opposite(d), p))>>>> :
                      w1 \in WindValues, w2 \in WindValues, d \in DirValues,
                      p \in PrecipValues}
    /\ min15 = <<<<>>>>
    /\ waves = <<<<[time |-> 0, wave_m |-> 12], [time |-> StepsPerHour, wave_m |-> 8]>>>>
    /\ Start

SpecClassify == InitClassify /\ [][Next]_vars

\* Two-spot scenarios: each spot has its own sector and its own payloads
IndepSectors ==
    {<<>>, <<DirectionSectorValidate(SampleSector)>>,
     <<DirectionSectorValidate(Sector(90, 180, FALSE))>>}

IndepPool == {Value(180, 220, 270, 0), Value(180, 220, 100, 0), Value(100, 140, 270, 6)}

IndepHourly == SeriesOver({0, 1}, StepsPerHour, IndepPool)

IndepMin15 == {<<>>, <<PayloadRow(0, Value(160, 190, 300, 0))>>}

IndepWaves ==
    <<[time |-> 0, wave_m |-> 12], [time |-> StepsPerHour, wave_m |-> 8]>>

InitIndep ==
    /\ config \in {[spots |-> <<[name |-> "Spot1", dir_sector |-> s1],
                                [name |-> "Spot2", dir_sector |-> s2]>>,
                    time_window |-> Window(0, 230),
                    conditions |-> [bands |-> SampleBands, rain_limit |-> 5]] :
                      s1 \in IndepSectors, s2 \in IndepSectors}
    /\ hourly \in {<<h1, h2>> : h1 \in IndepHourly, h2 \in IndepHourly}
    /\ min15 \in {<<m1, m2>> : m1 \in IndepMin15, m2 \in IndepMin15}
    /\ waves = <<IndepWaves, IndepWaves>>
    /\ Start

SpecIndep == InitIndep /\ [][Next]_vars

\* Daytime scenarios: hourly samples at 05:00, 06:00, 20:00, 21:00 and 20:00
\* of the next day, 15-minute samples between 19:45 and 21:00, and windows
\* with whole and fractional limits
DaytimeHours == {5, 6, 20, 21, HoursPerDay + 20}
DaytimeQuarters == (20 * StepsPerHour - 1) .. (21 * StepsPerHour)
DaytimeWindows ==
    {w \in {Window(60, 200), Window(0, 230), Window(200, 200), Window(55, 205),
            Window(210, 60)} : ValidateWindow(w)}

InitDaytime ==
    /\ config \in {MakeConfig(<<DirectionSectorValidate(SampleSector)>>, w, SampleBands, 5) :
                      w \in DaytimeWindows}
    /\ hourly \in {<<h>> : h \in UNION {SeriesOver(T, StepsPerHour, {Value(180, 220, 270, 0)}) :
                                           T \in SUBSET DaytimeHours}}
    /\ min15 \in {<<m>> : m \in UNION {SeriesOver(a .. b, 1, {Value(160, 190, 300, 0)}) :
                                          a \in DaytimeQuarters, b \in DaytimeQuarters}}
    /\ waves = <<[i \in 1 .. Len(Asc(DaytimeHours)) |->
                    [time |-> Asc(DaytimeHours)[i] * StepsPerHour, wave_m |-> 12]]>>
    /\ Start

SpecDaytime == InitDaytime /\ [][Next]_vars

\* Star scenarios: two hourly samples under tables that bring every label of
\* the rating table, a label outside it, and winds below every threshold
StarBandTables ==
    {b \in {NineBands, SampleBands,
            <<Band("hardcore", 350), Band("custom", 100)>>,
            <<Band("great", 250), Band("good", 170)>>,
            <<Band("insane", 300), Band("hardcore", 200), Band("light", 120)>>} :
        ValidateBands(b)}

StarWinds == {100, 119, 120, 149, 150, 169, 170, 200, 249, 250, 300, 349, 350, 399, 400, 450}

InitStars ==
    /\ config \in {MakeConfig(sec, Window(0, 230), b, 5) :
                      sec \in {<<>>, <<DirectionSectorValidate(SampleSector)>>},
                      b \in StarBandTables}
    /\ hourly \in {<<<<PayloadRow(0, Value(w1, w1 + 40, 270, 0)),
                        PayloadRow(StepsPerHour, Value(w2, w2 + 40, 270, 0))>>>> :
                      w1 \in StarWinds, w2 \in StarWinds}
    /\ min15 = <<<<>>>>
    /\ waves = <<<<[time |-> 0, wave_m |-> 12], [time |-> StepsPerHour, wave_m |-> 8]>>>>
    /\ Start

SpecStars == InitStars /\ [][Next]_vars

\* Report scenarios: the renderers read a forecast file with two spots; Spot1
\* has samples inside the 10:00 hour of day 0, at 11:00 and at 10:00 of day 1
RenderConfig ==
    [spots |-> <<[name |-> "Spot1", dir_sector |-> <<DirectionSectorValidate(SampleSector)>>],
                 [name |-> "Spot2", dir_sector |-> <<DirectionSectorValidate(SampleSector)>>]>>,
     time_window |-> Window(60, 200),
     conditions |-> [bands |-> NineBands, rain_limit |-> 5]]

Absent == [wind_kn |-> NaN, gust_kn |-> NaN, dir_deg |-> NaN, precip |-> NaN]

\* the 15-minute slots of the 10:00 hour of day 0
Slots == {10 * StepsPerHour + q : q \in 0 .. (NumSlots - 1)}
Eleven == 11 * StepsPerHour
NextDayTen == (HoursPerDay + 10) * StepsPerHour

SlotPool == {Absent, Value(150, 200, 270, 0), Value(160, 190, 270, 0),
             Value(180, 210, 270, 0), Value(300, 340, 100, 0)}

\* the frame rows of a spot: the samples of f that are present, in ascending
\* or descending order of time
RECURSIVE FrameOf(_, _)
FrameOf(f, times) ==
    IF times = <<>> THEN <<>>
    ELSE (IF f[Head(times)] = Absent THEN <<>>
          ELSE <<WithWave([time |-> Head(times), wind_kn |-> f[Head(times)].wind_kn,
                           gust_kn |-> f[Head(times)].gust_kn,
                           dir_deg |-> f[Head(times)].dir_deg,
                           precip |-> f[Head(times)].precip, freq |-> "15min"], 12)>>)
         \o FrameOf(f, Tail(times))

Reverse(q) == [i \in 1 .. Len(q) |-> q[Len(q) + 1 - i]]

\* the entry of a spot in windows.json for analysed rows
FileEntry(spot, rows) ==
    SpotResult(spot, [i \in 1 .. Len(rows) |->
                         Analyze(rows[i], spot, RenderConfig.conditions)])

Spot1Samples ==
    {f \in [Slots \cup {Eleven, NextDayTen} -> SlotPool] :
        /\ f[Eleven] \in {Absent, Value(300, 340, 100, 0)}
        /\ f[NextDayTen] \in {Absent, Value(160, 190, 270, 0)}}

Spot2Samples ==
    {f \in [{10 * StepsPerHour, NextDayTen} -> {Absent, Value(170, 230, 270, 0), Value(100, 140, 270, 0)}] :
        f[NextDayTen] # Value(170, 230, 270, 0)}

InitRender ==
    /\ config = RenderConfig
    /\ hourly = <<>> /\ min15 = <<>> /\ waves = <<>>
    /\ df_concat = <<>> /\ df_joined = <<>> /\ df_day = <<>> /\ df_final = <<>>
    /\ \E f1 \in Spot1Samples, f2 \in Spot2Samples, descending \in BOOLEAN :
          LET rows1 == FrameOf(f1, Asc(DOMAIN f1))
              rows2 == FrameOf(f2, Asc(DOMAIN f2))
          IN  result = <<FileEntry(config.spots[1],
                                   IF descending THEN Reverse(rows1) ELSE rows1),
                         FileEntry(config.spots[2], rows2)>>
    /\ pc = "processed"
    /\ cells = <<>> /\ report = <<>> /\ legacy = <<>> /\ cli = <<>>

SpecRender == InitRender /\ [][NextRender]_vars

\* Command-line scenarios: a configuration file that is missing, unparsable or
\* holds any mix of valid and invalid fields, the two flags, and the hourly
\* payload of the one spot
CliSectors ==
    {Sector(225, 45, TRUE), Sector(300, 60, FALSE), Sector(90, 180, FALSE),
     Sector(400, 20, FALSE)}

CliWindows == {Window(60, 200), Window(200, 60), Window(100, 100), Window(0, 240)}

CliBands ==
    {SampleBands, <<>>,
     <<Band("good", 170), Band("light", 170), Band("below", 0)>>,
     <<Band("below", 0), Band("light", 120)>>}

CliSpots ==
    {<<>>} \cup {<<[name |-> "Test Spot", lat |-> lat, dir_sector |-> s]>> :
                    lat \in {45, 100}, s \in CliSectors}

CliData ==
    {[spots |-> sp, time_window |-> w,
      conditions |-> [bands |-> b, rain_limit |-> r]] :
        sp \in CliSpots, w \in CliWindows, b \in CliBands, r \in {5, -10}}

CliFiles ==
    {[exists |-> FALSE, json |-> FALSE, data |-> <<>>],
     [exists |-> TRUE, json |-> FALSE, data |-> <<>>]}
        \cup {[exists |-> TRUE, json |-> TRUE, data |-> <<d>>] : d \in CliData}

CliPool == {Value(180, 220, 270, 0), Value(180, 220, 0, 0)}

CliHourly == UNION {SeriesOver(T, StepsPerHour, CliPool) : T \in SUBSET {10, 11}}

InitCli ==
    /\ config = <<>>
    /\ hourly \in {<<h>> : h \in CliHourly}
    /\ min15 = <<<<>>>>
    /\ waves = <<<<[time |-> 10 * StepsPerHour, wave_m |-> 12],
                   [time |-> 11 * StepsPerHour, wave_m |-> 8]>>>>
    /\ pc = "cli"
    /\ df_concat = <<>> /\ df_joined = <<>> /\ df_day = <<>> /\ df_final = <<>>
    /\ result = <<>> /\ cells = <<>> /\ report = <<>> /\ legacy = <<>>
    /\ cli \in {[file |-> f, jpg |-> j, summary |-> su, step |-> "start",
                 load |-> <<>>, data |-> {}, trace |-> <<>>, error |-> "",
                 exit |-> <<>>] :
                   f \in CliFiles, j \in BOOLEAN, su \in BOOLEAN}

SpecCli == InitCli /\ [][NextCli]_vars

-----------------------------------------------------------------------------
(* Properties of the merge *)

\* r is the payload row p, taken from the feed freq
IsSample(r, p, freq) ==
    /\ r.time = p.time /\ r.wind_kn = p.wind_kn /\ r.gust_kn = p.gust_kn
    /\ r.dir_deg = p.dir_deg /\ r.precip = p.precip /\ r.freq = freq

\* p lies after every sample of the 15-minute payload m
AfterAll(p, m) == \A j \in 1 .. Len(m) : p.time > m[j].time

\* C1: the merged series is every 15-minute sample, in order, followed by
\* exactly the hourly samples whose time is strictly greater than every
\* 15-minute time, in order; no hourly sample at or before the last 15-minute
\* time is in it.
C1_MergePrefersMin15 ==
    pc # "fetched" =>
        \A s \in DOMAIN df_concat :
            LET S == df_concat[s]
                M == min15[s]
                H == hourly[s]
                late == {i \in 1 .. Len(H) : AfterAll(H[i], M)}
            IN  /\ Len(S) = Len(M) + Cardinality(late)
                /\ \A k \in 1 .. Len(M) : IsSample(S[k], M[k], "15min")
                /\ \A k \in (Len(M) + 1) .. Len(S) :
                      \E i \in late : IsSample(S[k], H[i], "H")
                /\ \A i \in late :
                      \E k \in (Len(M) + 1) .. Len(S) : IsSample(S[k], H[i], "H")
                /\ \A k \in (Len(M) + 1) .. (Len(S) - 1) : S[k].time < S[k + 1].time
                /\ \A k \in 1 .. Len(S) :
                      S[k].freq = "H" => AfterAll(S[k], M)

\* C1 witness: the hourly payload has a sample at exactly the last 15-minute
\* time and a later one; the merged series holds the later one after the
\* 15-minute samples.
C1_Witness ==
    /\ pc = "processed"
    /\ Len(min15[1]) >= 2
    /\ \E i \in 1 .. Len(hourly[1]) : hourly[1][i].time = min15[1][Len(min15[1])].time
    /\ \E k \in 1 .. Len(df_concat[1]) :
          /\ df_concat[1][k].freq = "H"
          /\ k > Len(min15[1])

\* C2: the series after the merge and the wave join never holds two samples
\* with the same timestamp.
C2_NoDuplicateTimestamps ==
    \A s \in DOMAIN df_joined :
        \A i, j \in 1 .. Len(df_joined[s]) :
            i # j => df_joined[s][i].time # df_joined[s][j].time

\* C2 witness: both feeds have a sample at the last 15-minute time, the wave
\* series has an entry there, and the joined series has one sample there.
C2_Witness ==
    /\ pc = "processed"
    /\ min15[1] # <<>>
    /\ LET t == min15[1][Len(min15[1])].time
       IN  /\ \E i \in 1 .. Len(hourly[1]) : hourly[1][i].time = t
           /\ \E i \in 1 .. Len(waves[1]) : waves[1][i].time = t
           /\ Cardinality({k \in 1 .. Len(df_joined[1]) : df_joined[1][k].time = t}) = 1
    /\ Len(df_joined[1]) >= 3

\* C3: with an empty or absent 15-minute payload the merged series is the
\* hourly series: same length, same order, same values.
C3_EmptyMin15YieldsHourly ==
    pc # "fetched" =>
        \A s \in DOMAIN df_concat :
            min15[s] = <<>> =>
                /\ Len(df_concat[s]) = Len(hourly[s])
                /\ \A k \in 1 .. Len(hourly[s]) :
                      IsSample(df_concat[s][k], hourly[s][k], "H")

\* C3 witness: an empty 15-minute payload merged with a full hourly payload
C3_Witness ==
    /\ pc = "processed"
    /\ min15[1] = <<>>
    /\ Len(hourly[1]) = NumHours
    /\ Len(df_concat[1]) = NumHours

-----------------------------------------------------------------------------
(* Properties of dropna *)

\* C4: a sample that passed the wave join (and the daytime filter) is dropped
\* iff one of wind, gust, direction, precipitation is null; a sample whose
\* only null is the wave height is emitted with a null wave_m.
C4_DropIffRequiredFieldNull ==
    pc # "fetched" =>
        \A s \in DOMAIN df_day :
            \A k \in 1 .. Len(df_day[s]) :
                LET r == df_day[s][k]
                    emitted == \E j \in 1 .. Len(result[s].rows) :
                                   /\ result[s].rows[j].time = r.time
                                   /\ result[s].rows[j].wave_m = r.wave_m
                IN  emitted <=> (/\ r.wind_kn # NaN /\ r.gust_kn # NaN
                                 /\ r.dir_deg # NaN /\ r.precip # NaN)

-----------------------------------------------------------------------------
(* Properties of the classification *)

\* C5: an emitted sample is kiteable iff its direction is inside the spot's
\* sector, its precipitation is at most the rain limit and its wind is at
\* least 12.0 kn, whatever its band.
C5_KiteableIffAllThree ==
    \A s \in DOMAIN result :
        \A j \in 1 .. Len(result[s].rows) :
            LET r == result[s].rows[j]
                sec == config.spots[s].dir_sector
                inside == \/ sec = <<>>
                          \/ /\ sec # <<>>
                             /\ IF sec[1].wrap
                                THEN r.dir_deg >= sec[1].start \/ r.dir_deg <= sec[1].end
                                ELSE sec[1].start <= r.dir_deg /\ r.dir_deg <= sec[1].end
            IN  r.kiteable <=> (/\ inside
                                /\ r.precip_mm_h <= config.conditions.rain_limit
                                /\ r.wind_kn >= 120)

\* C5 witness: a kiteable sample at the rain limit whose wind is at or above
\* the most extreme band threshold
C5_Witness ==
    /\ pc = "processed"
    /\ \E j \in 1 .. Len(result[1].rows) :
          /\ result[1].rows[j].kiteable
          /\ result[1].rows[j].precip_mm_h = config.conditions.rain_limit
          /\ result[1].rows[j].wind_kn >= config.conditions.bands[1].thr
          /\ result[1].rows[j].band = config.conditions.bands[1].label

\* C6: a sample with wind below 12.0 kn is never kiteable, whatever the
\* sector, the rain limit and the band table.
C6_BelowFloorNeverKiteable ==
    \A s \in DOMAIN result :
        \A j \in 1 .. Len(result[s].rows) :
            result[s].rows[j].wind_kn < 120 => ~result[s].rows[j].kiteable

\* C6 witness: a sample just below the floor, inside the sector and dry, under
\* a band table whose lowest threshold lies below the floor, is not kiteable
C6_Witness ==
    /\ pc = "processed"
    /\ config.conditions.bands[Len(config.conditions.bands)].thr = 80
    /\ \E j \in 1 .. Len(df_final[1]) :
          /\ df_final[1][j].wind_kn = 119
          /\ df_final[1][j].dir_ok /\ df_final[1][j].rain_ok
          /\ df_final[1][j].band = "light"
          /\ ~df_final[1][j].kiteable

\* C7: without a sector every direction is inside; inside a non-wrapping
\* sector iff start <= deg <= end (normalized end); inside a wrapping sector
\* iff deg >= start or deg <= end.  For {225, 45, wrap}: 300 inside, 100 outside.
C7_SectorMembership ==
    \A s \in DOMAIN df_final :
        \A k \in 1 .. Len(df_final[s]) :
            LET r == df_final[s][k]
                sec == config.spots[s].dir_sector
            IN  /\ sec = <<>> => r.dir_ok
                /\ (sec # <<>> /\ ~sec[1].wrap) =>
                      (r.dir_ok <=> (sec[1].start <= r.dir_deg /\ r.dir_deg <= sec[1].end))
                /\ (sec # <<>> /\ sec[1].wrap) =>
                      (r.dir_ok <=> (r.dir_deg >= sec[1].start \/ r.dir_deg <= sec[1].end))
                /\ sec = <<Sector(225, 45, TRUE)>> =>
                      /\ r.dir_deg = 300 => r.dir_ok
                      /\ r.dir_deg = 100 => ~r.dir_ok

\* C7 witness: the wrapping sector {225, 45} with one sample inside (300) and
\* the sample of the opposite direction outside
C7_Witness ==
    /\ pc = "processed"
    /\ config.spots[1].dir_sector = <<Sector(225, 45, TRUE)>>
    /\ \E k \in 1 .. Len(df_final[1]) :
          df_final[1][k].dir_deg = 300 /\ df_final[1][k].dir_ok
    /\ \E k \in 1 .. Len(df_final[1]) : ~df_final[1][k].dir_ok

\* C8: the band of a speed v is the label of the first entry of the table
\* whose threshold is <= v, "below" when there is none; a speed equal to a
\* threshold is in that threshold's band.
C8_BandIsFirstMatch ==
    \A s \in DOMAIN result :
        \A j \in 1 .. Len(result[s].rows) :
            LET r == result[s].rows[j]
                bands == config.conditions.bands
                hit == {i \in 1 .. Len(bands) : bands[i].thr <= r.wind_kn}
            IN  /\ hit = {} => r.band = "below"
                /\ \A i \in hit :
                      (\A i2 \in hit : i <= i2) => r.band = bands[i].label
                /\ \A i \in 1 .. Len(bands) :
                      bands[i].thr = r.wind_kn => r.band = bands[i].label
                /\ bands = SampleBands =>
                      /\ r.wind_kn = 170 => r.band = "good"
                      /\ r.wind_kn = 119 => r.band = "below"
                      /\ r.wind_kn = 400 => r.band = "too much"

\* C8 witness: one sample exactly on a threshold that is not the first of the
\* table, and one sample below every threshold
C8_Witness ==
    /\ pc = "processed"
    /\ \E j \in 1 .. Len(result[1].rows) :
          \E i \in 2 .. Len(config.conditions.bands) :
              /\ result[1].rows[j].wind_kn = config.conditions.bands[i].thr
              /\ result[1].rows[j].band = config.conditions.bands[i].label
    /\ \E j \in 1 .. Len(result[1].rows) :
          /\ \A i \in 1 .. Len(config.conditions.bands) :
                result[1].rows[j].wind_kn < config.conditions.bands[i].thr
          /\ result[1].rows[j].band = "below"

\* the position of a band label in a table, after the last entry for a label
\* that is not in it ("below" by fall-through)
BandPos(label, bands) ==
    IF \E i \in 1 .. Len(bands) : bands[i].label = label
    THEN CHOOSE i \in 1 .. Len(bands) :
             /\ bands[i].label = label
             /\ \A i2 \in 1 .. (i - 1) : bands[i2].label # label
    ELSE Len(bands) + 1

\* C9: classification is monotonic: of two samples, the one with the higher
\* (or equal) speed has its band at the same or an earlier (more extreme)
\* position of the table, "below" coming last.
C9_BandMonotonic ==
    \A s \in DOMAIN result :
        \A j1, j2 \in 1 .. Len(result[s].rows) :
            result[s].rows[j1].wind_kn >= result[s].rows[j2].wind_kn =>
                BandPos(result[s].rows[j1].band, config.conditions.bands)
                    <= BandPos(result[s].rows[j2].band, config.conditions.bands)

\* C9 witness: two samples of different speeds in different bands, the
\* slower one below every threshold
C9_Witness ==
    /\ pc = "processed"
    /\ Len(result[1].rows) = 2
    /\ result[1].rows[1].wind_kn > result[1].rows[2].wind_kn
    /\ BandPos(result[1].rows[1].band, config.conditions.bands)
          < BandPos(result[1].rows[2].band, config.conditions.bands)
    /\ BandPos(result[1].rows[2].band, config.conditions.bands)
          = Len(config.conditions.bands) + 1

-----------------------------------------------------------------------------
(* Properties of the star rating *)

\* C10: a cell whose wind is at or above the threshold of the first band of
\* the table has a star rating of 0, whatever the speed and the first label.
C10_ExtremeWindRatesZero ==
    pc = "rendered" =>
        \A s \in DOMAIN result :
            \A j \in 1 .. Len(result[s].rows) :
                LET r == result[s].rows[j]
                IN  r.wind_kn >= config.conditions.bands[1].thr =>
                        cells[r.time][result[s].spot].stars = 0

\* C10 witness: a kiteable cell at or above the first threshold, under a
\* table whose first label has a rating of its own, rated 0
C10_Witness ==
    /\ pc = "rendered"
    /\ StarMapping(config.conditions.bands[1].label) > 0
    /\ \E j \in 1 .. Len(result[1].rows) :
          /\ result[1].rows[j].kiteable
          /\ result[1].rows[j].wind_kn > config.conditions.bands[1].thr
          /\ cells[result[1].rows[j].time][result[1].spot].stars = 0

\* the rating the label has in the table insane=6, great=5, very good=4,
\* good=3, hardcore=3, ok=2, light=1, below=0; 0 for any other label
TableRating(label) ==
    CASE label = "insane" -> 6
      [] label = "great" -> 5
      [] label = "very good" -> 4
      [] label = "good" -> 3
      [] label = "hardcore" -> 3
      [] label = "ok" -> 2
      [] label = "light" -> 1
      [] label = "below" -> 0
      [] OTHER -> 0

\* the positions of the bands whose threshold is at or below the speed
Matching(wind_kn, bands) == {i \in 1 .. Len(bands) : bands[i].thr <= wind_kn}

\* C11: the stars of a kiteable cell whose wind is below the first threshold
\* are the table rating of the first band whose threshold is at or below the
\* wind (0 for a label outside the table), and 0 when the wind is below every
\* threshold.
C11_StarsFromFirstMatchingBand ==
    pc = "rendered" =>
        \A s \in DOMAIN result :
            \A j \in 1 .. Len(result[s].rows) :
                LET r == result[s].rows[j]
                    bands == config.conditions.bands
                    m == Matching(r.wind_kn, bands)
                IN  (r.kiteable /\ r.wind_kn < bands[1].thr) =>
                        cells[r.time][result[s].spot].stars =
                            IF m = {} THEN 0
                            ELSE TableRating(
                                    bands[CHOOSE i \in m : \A k \in m : i <= k].label)

\* C11 witness: a kiteable cell rated 6 by a band "insane" that is not the
\* first of its table, next to a kiteable cell rated 3 by the band "hardcore"
C11_Witness ==
    /\ pc = "rendered"
    /\ \E j \in 1 .. Len(result[1].rows), k \in 1 .. Len(result[1].rows) :
          /\ result[1].rows[j].kiteable
          /\ result[1].rows[j].wind_kn < config.conditions.bands[1].thr
          /\ result[1].rows[j].band = "insane"
          /\ cells[result[1].rows[j].time][result[1].spot].stars = 6
          /\ result[1].rows[k].kiteable
          /\ result[1].rows[k].band = "hardcore"
          /\ cells[result[1].rows[k].time][result[1].spot].stars = 3

-----------------------------------------------------------------------------
(* Properties of the daytime filter *)

\* the integer hour of day of a timestamp
HourOfDay(t) == (t \div StepsPerHour) % HoursPerDay

\* C12: the frame after the daytime filter holds, in the same order, exactly
\* the joined samples whose integer local hour h has
\* day_start <= h <= day_end, whatever their minutes.
C12_DaytimeKeepsIncludedHours ==
    pc # "fetched" =>
        \A s \in DOMAIN df_joined :
            df_day[s] = SelectSeq(df_joined[s], LAMBDA r :
                            /\ config.time_window.day_start <= HourOfDay(r.time) * 10
                            /\ HourOfDay(r.time) * 10 <= config.time_window.day_end)

\* C12 witness: with day_end = 20 the 20:45 sample is kept and the 21:00
\* sample is dropped
C12_Witness ==
    /\ pc = "processed"
    /\ config.time_window.day_end = 200
    /\ \E i \in 1 .. Len(df_day[1]) : df_day[1][i].time = 20 * StepsPerHour + 3
    /\ \E i \in 1 .. Len(df_joined[1]) : df_joined[1][i].time = 21 * StepsPerHour
    /\ \A i \in 1 .. Len(df_day[1]) : df_day[1][i].time # 21 * StepsPerHour

-----------------------------------------------------------------------------
(* Properties of the report *)

\* the day sections of both views of the report
ViewSections == {report.kiteable[i] : i \in 1 .. Len(report.kiteable)}
                    \cup {report.all[i] : i \in 1 .. Len(report.all)}

\* C13: every sample of the forecast file falls under a column of the
\* all-conditions view for its day, and no day table of either view has two
\* columns for the same wall-clock hour: the samples at 10:00, 10:15 and 10:30
\* share one column.
C13_OneColumnPerHour ==
    pc = "rendered" =>
        /\ \A t \in AllHours(result) :
              \E i \in 1 .. Len(report.all) :
                  \E k \in 1 .. Len(report.all[i].hours) :
                      hour_key(report.all[i].hours[k]) = hour_key(t)
        /\ \A sec \in ViewSections :
              \A i \in 1 .. Len(sec.hours), j \in 1 .. Len(sec.hours) :
                  hour_key(sec.hours[i]) = hour_key(sec.hours[j]) => i = j

\* the members of the hour bucket h of a spot: its rows of the forecast file
\* whose timestamp truncates to h
Bucket(name, h) ==
    UNION {{result[i].rows[j] :
               j \in {n \in 1 .. Len(result[i].rows) :
                         hour_key(result[i].rows[n].time) = h}} :
           i \in {k \in DOMAIN result : result[k].spot = name}}

\* r comes before q: higher star rating, then higher wind, then earlier time
Preferred(r, q) ==
    \/ stars_for(r) > stars_for(q)
    \/ stars_for(r) = stars_for(q) /\ r.wind_kn > q.wind_kn
    \/ stars_for(r) = stars_for(q) /\ r.wind_kn = q.wind_kn /\ r.time < q.time

KiteableColumns ==
    UNION {{report.kiteable[i].hours[k] : k \in 1 .. Len(report.kiteable[i].hours)} :
           i \in 1 .. Len(report.kiteable)}

\* some spot of the forecast file has a kiteable sample at t
KiteableAt(t) ==
    \E i \in DOMAIN result : \E j \in 1 .. Len(result[i].rows) :
        result[i].rows[j].time = t /\ result[i].rows[j].kiteable

\* C15: an hour of the forecast file is a column of the kiteable view if and
\* only if some spot has a kiteable sample for it, and it is then a column of
\* the table of its own day only.
C15_KiteableViewHours ==
    pc = "rendered" =>
        /\ \A t \in AllHours(result) : t \in KiteableColumns <=> KiteableAt(t)
        /\ KiteableColumns \subseteq AllHours(result)
        /\ \A i \in 1 .. Len(report.kiteable) :
              \A k \in 1 .. Len(report.kiteable[i].hours) :
                  DayOf(report.kiteable[i].hours[k]) = report.kiteable[i].day

\* C15 witness: Spot1 is kiteable at 10:15 and has a sample at 11:00 of the
\* same day at which no spot is kiteable; 10:15 is a column, 11:00 is not
C15_Witness ==
    /\ pc = "rendered"
    /\ KiteableAt(10 * StepsPerHour + 1)
    /\ Eleven \in AllHours(result) /\ ~KiteableAt(Eleven)
    /\ 10 * StepsPerHour + 1 \in KiteableColumns
    /\ Eleven \notin KiteableColumns

\* the spots listed in the kiteable view, over its day tables
KiteableViewSpots ==
    UNION {{report.kiteable[i].spots[k] : k \in 1 .. Len(report.kiteable[i].spots)} :
           i \in 1 .. Len(report.kiteable)}

\* the spot has a kiteable sample somewhere in the forecast file
KiteableSomewhere(name) ==
    \E i \in DOMAIN result :
        /\ result[i].spot = name
        /\ \E j \in 1 .. Len(result[i].rows) : result[i].rows[j].kiteable

\* C16: a spot of the forecast file is listed in the kiteable view if and
\* only if it has a kiteable hour somewhere in the horizon; a spot that is
\* never kiteable is in none of its tables.
C16_KiteableViewSpots ==
    pc = "rendered" =>
        /\ \A i \in DOMAIN result :
              result[i].spot \in KiteableViewSpots <=> KiteableSomewhere(result[i].spot)
        /\ KiteableViewSpots \subseteq AllSpots(result)

\* C16 witness: the view has a table for day 0, on which Spot1 has samples
\* but no kiteable hour; Spot1 is kiteable on day 1 only and is listed
C16_Witness ==
    /\ pc = "rendered"
    /\ \E i \in 1 .. Len(report.kiteable) : report.kiteable[i].day = 0
    /\ \E j \in 1 .. Len(result[1].rows) : DayOf(result[1].rows[j].time) = 0
    /\ \A j \in 1 .. Len(result[1].rows) :
          result[1].rows[j].kiteable <=> DayOf(result[1].rows[j].time) = 1
    /\ "Spot1" \in KiteableViewSpots

\* the samples of a spot at an hour in the forecast file
SamplesAt(name, t) ==
    UNION {{result[i].rows[j] :
               j \in {n \in 1 .. Len(result[i].rows) : result[i].rows[n].time = t}} :
           i \in {k \in DOMAIN result : result[k].spot = name}}

\* C17: the all-conditions view has one table per day of the forecast file;
\* the table lists every hour of the day at which any spot has a sample and
\* every spot of the file, once each; a spot without a sample at an hour has
\* a no-data cell there, a spot with a sample has a data cell, kiteable or
\* not, and no data cell is hidden.
C17_AllConditionsView ==
    pc = "rendered" =>
        /\ \A d \in {DayOf(t) : t \in AllHours(result)} :
              \E i \in 1 .. Len(report.all) : report.all[i].day = d
        /\ \A i \in 1 .. Len(report.all) :
              LET sec == report.all[i]
              IN  /\ {sec.hours[k] : k \in 1 .. Len(sec.hours)}
                        = {t \in AllHours(result) : DayOf(t) = sec.day}
                  /\ Len(sec.hours) = Cardinality({sec.hours[k] : k \in 1 .. Len(sec.hours)})
                  /\ {sec.spots[k] : k \in 1 .. Len(sec.spots)} = AllSpots(result)
                  /\ Len(sec.spots) = Cardinality(AllSpots(result))
                  /\ \A k \in 1 .. Len(sec.spots), n \in 1 .. Len(sec.hours) :
                        LET cell == sec.cells[sec.spots[k]][sec.hours[n]]
                            rows == SamplesAt(sec.spots[k], sec.hours[n])
                        IN  IF rows = {}
                            THEN cell.kind = "no-data"
                            ELSE /\ cell.kind = "cell-data"
                                 /\ ~cell.hidden
                                 /\ \E r \in rows : cell.kiteable = r.kiteable

\* C17 witness: Spot2 is never kiteable and has a sample at 10:00, Spot1 has
\* samples that day but none at 10:00; the day-0 table lists both spots, has
\* a visible non-kiteable data cell for Spot2 and a no-data cell for Spot1
C17_Witness ==
    /\ pc = "rendered"
    /\ ~KiteableSomewhere("Spot2")
    /\ \E i \in 1 .. Len(report.all) :
          /\ report.all[i].day = 0
          /\ \E k \in 1 .. Len(report.all[i].spots) : report.all[i].spots[k] = "Spot2"
          /\ {10 * StepsPerHour, 10 * StepsPerHour + 1}
                \subseteq DOMAIN report.all[i].cells["Spot1"]
          /\ report.all[i].cells["Spot1"][10 * StepsPerHour + 1].kind = "cell-data"
          /\ report.all[i].cells["Spot1"][10 * StepsPerHour].kind = "no-data"
          /\ report.all[i].cells["Spot2"][10 * StepsPerHour].kind = "cell-data"
          /\ ~report.all[i].cells["Spot2"][10 * StepsPerHour].kiteable
          /\ ~report.all[i].cells["Spot2"][10 * StepsPerHour].hidden

-----------------------------------------------------------------------------
(* Properties of the daily summary *)

\* the kiteable samples of a spot on a day in the forecast file
KiteableSamples(name, day) ==
    UNION {{result[i].rows[j] :
               j \in {n \in 1 .. Len(result[i].rows) :
                         /\ result[i].rows[n].kiteable
                         /\ DayOf(result[i].rows[n].time) = day}} :
           i \in {k \in DOMAIN result : result[k].spot = name}}

\* the day sections of the daily summary, when the report has one
SummarySections ==
    IF report.summary = <<>> THEN {}
    ELSE {report.summary[1].sections[i] : i \in 1 .. Len(report.summary[1].sections)}

\* C18: for each day and spot of the daily summary, the reported number of
\* kiteable hours is the number of distinct wall-clock hours of that day in
\* which the spot has a kiteable sample.
C18_CountsDistinctHours ==
    pc = "rendered" =>
        \A sec \in SummarySections :
            \A name \in DOMAIN sec.spots :
                sec.spots[name].count =
                    Cardinality({hour_key(r.time) : r \in KiteableSamples(name, sec.day)})

\* the sum of a field over a set of samples
RECURSIVE SumField(_, _)
SumField(S, field) ==
    IF S = {} THEN 0
    ELSE LET r == CHOOSE x \in S : TRUE
         IN  r[field] + SumField(S \ {r}, field)

\* C19 as stated: the reported gust value of a day and spot is the arithmetic
\* mean of the gust over the spot's kiteable samples of that day.
C19_GustIsMean ==
    pc = "rendered" =>
        \A sec \in SummarySections :
            \A name \in DOMAIN sec.spots :
                sec.spots[name].max_gust * Cardinality(KiteableSamples(name, sec.day))
                    = SumField(KiteableSamples(name, sec.day), "gust_kn")

\* C19 amended: the reported gust value of a day and spot is the maximum of
\* the gust over the spot's kiteable samples of that day, while the reported
\* wind is their arithmetic mean (the sum of the winds over their number).
C19_GustIsMaximum ==
    pc = "rendered" =>
        \A sec \in SummarySections :
            \A name \in DOMAIN sec.spots :
                LET S == KiteableSamples(name, sec.day)
                IN  /\ \E r \in S : r.gust_kn = sec.spots[name].max_gust
                    /\ \A r \in S : r.gust_kn <= sec.spots[name].max_gust
                    /\ sec.spots[name].wind_sum = SumField(S, "wind_kn")
                    /\ sec.spots[name].count = Cardinality(S)

\* C19 witness: Spot1 has kiteable samples of gust 20.0 and 19.0 on day 0;
\* the summary reports 20.0, which is not their mean
C19_Witness ==
    /\ pc = "rendered"
    /\ \E sec \in SummarySections :
          /\ sec.day = 0
          /\ "Spot1" \in DOMAIN sec.spots
          /\ {r.gust_kn : r \in KiteableSamples("Spot1", 0)} = {190, 200}
          /\ sec.spots["Spot1"].max_gust = 200
          /\ sec.spots["Spot1"].max_gust * Cardinality(KiteableSamples("Spot1", 0))
                # SumField(KiteableSamples("Spot1", 0), "gust_kn")

\* some spot has a kiteable sample on the day
KiteableDay(day) == \E name \in AllSpots(result) : KiteableSamples(name, day) # {}

\* C20: when the report carries the daily summary, a day of the forecast file
\* has a day section in it if and only if some spot has a kiteable hour on
\* that day; there is one section per such day, none is empty, and a day
\* with samples but no kiteable hour has none.
C20_DaySectionIffKiteable ==
    (pc = "rendered" /\ report.include_summary) =>
        /\ \A d \in {DayOf(t) : t \in AllHours(result)} :
              (\E sec \in SummarySections : sec.day = d) <=> KiteableDay(d)
        /\ \A sec \in SummarySections :
              /\ sec.day \in {DayOf(t) : t \in AllHours(result)}
              /\ DOMAIN sec.spots # {}
        /\ report.summary # <<>> =>
              Len(report.summary[1].sections) = Cardinality(SummarySections)

\* C20 witness: day 0 has a kiteable hour, day 1 has a sample but no kiteable
\* hour; the summary has a section for day 0 and none for day 1
C20_Witness ==
    /\ pc = "rendered" /\ report.include_summary
    /\ KiteableDay(0)
    /\ \E t \in AllHours(result) : DayOf(t) = 1
    /\ ~KiteableDay(1)
    /\ {sec.day : sec \in SummarySections} = {0}

-----------------------------------------------------------------------------
(* Properties of the empty result *)

-----------------------------------------------------------------------------
(* Properties of the representative *)

\* C28: in the hourly table, when an hour bucket of a spot has a kiteable
\* member, its representative is kiteable: a non-kiteable member, whatever
\* its wind, is never chosen over a kiteable one.
C28_RepresentativeKeepsKiteability ==
    (pc = "legacy" /\ legacy.wrote) =>
        \A name \in DOMAIN legacy.best :
            \A h \in DOMAIN legacy.best[name] :
                (\E r \in Bucket(name, h) : r.kiteable) =>
                    /\ legacy.best[name][h] # <<>>
                    /\ legacy.best[name][h][1].kiteable

\* C28 witness: the 10:00 bucket of Spot1 holds a non-kiteable 30 kn sample
\* (wrong direction) and a kiteable sample of lower wind; the representative
\* is the kiteable one
C28_Witness ==
    /\ pc = "legacy" /\ legacy.wrote
    /\ \E r \in Bucket("Spot1", 10 * StepsPerHour) :
          ~r.kiteable /\ r.wind_kn = 300
    /\ \E r \in Bucket("Spot1", 10 * StepsPerHour) :
          /\ r.kiteable /\ r.wind_kn < 300
          /\ legacy.best["Spot1"][10 * StepsPerHour] = <<r>>

-----------------------------------------------------------------------------
(* Properties of the normalized sector *)

\* C27: for a non-wrapping sector configured with start > end, whose end the
\* validation has replaced by end + 360, a direction deg of [0, 360) is inside
\* if and only if deg >= start or deg <= the original end.
C27_NormalizedSectorCoversArc ==
    \A s \in DOMAIN df_final :
        \A k \in 1 .. Len(df_final[s]) :
            LET r == df_final[s][k]
                sec == config.spots[s].dir_sector
            IN  (/\ sec # <<>>
                 /\ ~sec[1].wrap
                 /\ sec[1].end > 360
                 /\ r.dir_deg < 360) =>
                    (r.dir_ok <=> (r.dir_deg >= sec[1].start
                                      \/ r.dir_deg <= sec[1].end - 360))

-----------------------------------------------------------------------------
(* Properties of the per-spot processing *)

\* the configuration with the single spot i
OnlySpot(i) == [config EXCEPT !.spots = <<config.spots[i]>>]

\* the configuration with the spots in reverse order
SpotsReversed == [config EXCEPT !.spots = Reverse(config.spots)]

\* C26: the entry emitted for a spot is the one a run with that spot alone
\* emits from the spot's own three payloads and sector and the global rain
\* limit, band table and window, and the one a run over the spots in reverse
\* order emits; the output lists the spots in configuration order.
C26_PerSpotIndependence ==
    pc # "fetched" =>
        /\ Len(result) = Len(config.spots)
        /\ \A i \in DOMAIN result :
              /\ result[i].spot = config.spots[i].name
              /\ result[i] = _process_forecasts(OnlySpot(i), <<hourly[i]>>,
                                                <<min15[i]>>, <<waves[i]>>)[1]
              /\ result[i] = _process_forecasts(SpotsReversed, Reverse(hourly),
                                                Reverse(min15), Reverse(waves))
                                               [Len(result) + 1 - i]

\* C26 witness: two spots whose payloads and sectors differ and whose emitted
\* rows differ
C26_Witness ==
    /\ pc = "processed"
    /\ Len(result) = 2
    /\ hourly[1] # hourly[2]
    /\ config.spots[1].dir_sector # config.spots[2].dir_sector
    /\ result[1].rows # result[2].rows
    /\ \E j \in 1 .. Len(result[1].rows) : result[1].rows[j].kiteable
    /\ \E j \in 1 .. Len(result[2].rows) : ~result[2].rows[j].kiteable

-----------------------------------------------------------------------------
(* Configuration loading and the command line *)

C23_AcceptedWindowIsStrict ==
    (cli.step # "start" /\ cli.load.config # <<>>) =>
        /\ 0 <= cli.load.config[1].time_window.day_start
        /\ cli.load.config[1].time_window.day_start
              < cli.load.config[1].time_window.day_end
        /\ cli.load.config[1].time_window.day_end <= 230

\* what the configuration schema demands of the data of a file
PassesValidation(data) ==
    /\ data.spots # <<>>
    /\ \A i \in DOMAIN data.spots :
          /\ -90 <= data.spots[i].lat /\ data.spots[i].lat <= 90
          /\ DirectionSectorFieldsOk(data.spots[i].dir_sector)
    /\ ValidateWindow(data.time_window)
    /\ data.conditions.rain_limit >= 0
    /\ ValidateBands(data.conditions.bands)

\* C24: load_config returns a WindConfig only when the file exists, parses as
\* JSON and passes validation; a missing file raises FileNotFoundError,
\* unparsable JSON raises a ValueError holding "Invalid JSON in config file",
\* a validation failure raises a ValueError carrying the message of the first
\* validation error, and no configuration object is returned on a failure.
C24_LoadConfigOutcomes ==
    cli.step # "start" =>
        /\ cli.load.config # <<>> <=>
              (cli.file.exists /\ cli.file.json /\ PassesValidation(cli.file.data[1]))
        /\ ~cli.file.exists => cli.load.raised = "FileNotFoundError"
        /\ (cli.file.exists /\ ~cli.file.json) =>
              /\ cli.load.raised = "ValueError"
              /\ cli.load.msg[1] = "Invalid JSON in config file"
        /\ (cli.file.json /\ ~PassesValidation(cli.file.data[1])) =>
              /\ cli.load.raised = "ValueError"
              /\ cli.load.errors # <<>>
              /\ \/ cli.load.msg[1] = cli.load.errors[1].msg
                 \/ /\ cli.load.errors[1].type = "value_error"
                    /\ cli.load.msg[Len(cli.load.msg)] = cli.load.errors[1].msg
              /\ cli.load.errors[1].type \in {"less_than_equal", "greater_than_equal"} =>
                    cli.load.msg[2] = cli.load.errors[1].bound
        /\ cli.load.raised # "" => (cli.load.config = <<>> /\ config = <<>>)

\* a file with two faults has been refused with the message of the first one
C24_Witness ==
    /\ cli.step = "done"
    /\ cli.file.json
    /\ Len(cli.load.errors) > 1
    /\ cli.load.errors[2].msg # cli.load.errors[1].msg
    /\ cli.load.raised = "ValueError"
    /\ cli.load.msg[1] = cli.load.errors[1].msg

\* the statements of the try block of main, in the order of the source
MainOrder ==
    <<"load_config", "mkdir", "fetch_forecasts", "write_json", "render_html",
      "generate_jpg">>

\* C25: main runs load config, fetch forecasts, write windows.json, render
\* HTML and (only with --jpg) generate JPG in that order; it returns 0 exactly
\* when every step it ran succeeded, 1 when a step raised or generate_jpg
\* returned False, and nothing runs after a failed step.
C25_RunSequence ==
    /\ Len(cli.trace) <= Len(MainOrder)
    /\ \A i \in DOMAIN cli.trace : cli.trace[i].step = MainOrder[i]
    /\ Len(cli.trace) = Len(MainOrder) => cli.jpg
    /\ \A i \in 1 .. (Len(cli.trace) - 1) : cli.trace[i].outcome = "ok"
    /\ cli.exit = <<0>> <=>
          /\ cli.step = "done"
          /\ \A i \in DOMAIN cli.trace : cli.trace[i].outcome = "ok"
    /\ cli.exit = <<0>> =>
          Len(cli.trace) = (IF cli.jpg THEN Len(MainOrder) ELSE Len(MainOrder) - 1)
    /\ cli.exit = <<1>> <=>
          /\ cli.trace # <<>>
          /\ cli.trace[Len(cli.trace)].outcome # "ok"
    /\ cli.exit # <<>> <=> cli.step = "done"

\* a run with --jpg went through every step and returned 1 because
\* generate_jpg returned False
C25_Witness ==
    /\ cli.jpg
    /\ Len(cli.trace) = Len(MainOrder)
    /\ cli.trace[Len(cli.trace)] = [step |-> "generate_jpg", outcome |-> "false"]
    /\ cli.exit = <<1>>

\* C29: every key and every row field render_html reads is in the dict
\* fetch_forecasts returned, so for a forecast with at least one row the
\* render step of the command line never fails on a missing key.
C29_HandOffHasEveryKey ==
    (cli.data # {} /\ \E i \in DOMAIN result : result[i].rows # <<>>) =>
        /\ RenderReads(result) \subseteq cli.data
        /\ \A i \in DOMAIN result : \A j \in DOMAIN result[i].rows :
              RowReads \subseteq DOMAIN result[i].rows[j]
        /\ ~(/\ cli.trace[Len(cli.trace)].step = "render_html"
             /\ cli.error = "KeyError")

\* C30: a validated direction sector, dumped and validated again, is accepted
\* and comes out with the same start, end and wrap, so it still satisfies
\* 0 <= start <= 360 and 0 <= end <= 360.
C30_SectorValidationIdempotent ==
    (cli.step # "start" /\ cli.load.config # <<>>) =>
        \A i \in DOMAIN config.spots :
            /\ DirectionSectorErrors(config.spots[i].dir_sector[1]) = <<>>
            /\ DirectionSectorValidate(config.spots[i].dir_sector[1])
                  = config.spots[i].dir_sector[1]

====
